---- MODULE Spec2Model ----
(***************************************************************************)
(* A model of nml_bag: the Reader class (src/nml_bag/reader.py), an        *)
(* iterator over the entries of a ROS2 bag file that converts each entry   *)
(* to a record, and the message helpers (src/nml_bag/message.py).          *)
(*                                                                         *)
(* Conventions.                                                            *)
(*  - A Python str that the code takes apart (a message type               *)
(*    specification) is a sequence of one-character strings; a str the     *)
(*    code only compares (a topic name, a field name, an exception name)   *)
(*    is a TLA+ string.                                                    *)
(*  - A Python dict is the sequence of its <<key, value>> items in         *)
(*    insertion order, with no key twice.                                  *)
(*  - The rosbag2_py SequentialReader, importlib and the rclpy / rosidl    *)
(*    deserializer are outside the repository.  They are modelled by what  *)
(*    the repository's design document says of them: a forward-only cursor *)
(*    over the entries of the open recording, a registry of loadable       *)
(*    message classes, and a decoder of a payload against a class.         *)
(*  - The Reader is modelled from the end of a construction that was given *)
(*    a filepath (the documented use); assert statements are executed.     *)
(***************************************************************************)
EXTENDS Integers, Sequences, FiniteSets, TLC

\* ------------------------------------------------------------------ bounds

\* The longest recording (number of entries) that is enumerated.
MaxEntries == 2
\* The longest message type specification handed to string_to_message_type
\* on its own.
MaxSpecLen == 5

\* ------------------------------------------------- message.py: the types

\* The characters message type specifications are made of.
SpecChars == {"e", "m", "S", "/"}

\* 'example_interfaces/msg/String', abbreviated: package e, module m, class S.
STR == <<"e", "/", "m", "/", "S">>
\* A second class with one field.
DAT == <<"e", "/", "m", "/", "D">>
\* A class with two fields, of the same package and module.
PNT == <<"e", "/", "m", "/", "P">>
\* A class one of whose fields is named like a reserved key of a record.
TPC == <<"e", "/", "m", "/", "T">>
\* A module that can be imported and has no such class.
NOCLS == <<"e", "/", "m", "/", "N">>
\* A package that cannot be imported.
NOMOD == <<"q", "/", "m", "/", "S">>
\* A specification of two components ("bad/spec").
BAD2 == <<"b", "/", "s">>

\* The modules importlib can import: <<package, module>>.
Modules == {<<(<<"e">>), (<<"m">>)>>}

\* The message classes of the importable modules and the field names each
\* declares, in declaration order.
ClassFields(package, module, name) ==
    IF <<package, module>> \notin Modules THEN <<>>
    ELSE IF name = <<"S">> THEN <<"data">>
    ELSE IF name = <<"D">> THEN <<"value">>
    ELSE IF name = <<"P">> THEN <<"x", "y">>
    ELSE IF name = <<"T">> THEN <<"topic">>
    ELSE <<>>

HasClass(package, module, name) ==
    /\ <<package, module>> \in Modules
    /\ name \in {<<"S">>, <<"D">>, <<"P">>, <<"T">>}

\* str.split(sep): the components between the occurrences of sep; a string
\* with n occurrences has n + 1 components, the empty string has one.
RECURSIVE split(_, _)
split(s, sep) ==
    IF \A i \in 1..Len(s) : s[i] # sep THEN <<s>>
    ELSE LET i == CHOOSE j \in 1..Len(s) :
                      /\ s[j] = sep
                      /\ \A k \in 1..(j - 1) : s[k] # sep
         IN <<SubSeq(s, 1, i - 1)>> \o split(SubSeq(s, i + 1, Len(s)), sep)

\* importlib.import_module('.' + module_name, package=package_name): the
\* outcome of the import.
import_module(module_name, package_name) ==
    IF package_name = <<>> THEN "TypeError"
    ELSE IF <<package_name, module_name>> \notin Modules THEN "ModuleNotFoundError"
    ELSE "ok"

\* The result of a call of string_to_message_type: its outcome ("ok" or the
\* exception raised), the class found (its field names) and the calls made
\* to the type-loading mechanism, in order.
Loaded(status, fields, loads) ==
    [status |-> status, fields |-> fields, loads |-> loads]

\* A variant that takes the first three components and ignores the rest.
string_to_message_type_first3(specification) ==
    LET parts == split(specification, "/")
    IN IF Len(parts) < 3 THEN Loaded("ValueError", <<>>, <<>>)
       ELSE LET imp == import_module(parts[2], parts[1])
            IN IF imp # "ok" THEN Loaded(imp, <<>>, <<"import_module">>)
               ELSE IF ~HasClass(parts[1], parts[2], parts[3])
               THEN Loaded("AttributeError", <<>>, <<"import_module", "getattr">>)
               ELSE Loaded("ok", ClassFields(parts[1], parts[2], parts[3]),
                           <<"import_module", "getattr">>)

\* string_to_message_type(specification): unpack the split into exactly
\* three names (ValueError otherwise), import the module, get the class.
string_to_message_type(specification) ==
    LET parts == split(specification, "/")
    IN IF Len(parts) # 3 THEN Loaded("ValueError", <<>>, <<>>)
       ELSE LET imp == import_module(parts[2], parts[1])
            IN IF imp # "ok" THEN Loaded(imp, <<>>, <<"import_module">>)
               ELSE IF ~HasClass(parts[1], parts[2], parts[3])
               THEN Loaded("AttributeError", <<>>, <<"import_module", "getattr">>)
               ELSE Loaded("ok", ClassFields(parts[1], parts[2], parts[3]),
                           <<"import_module", "getattr">>)

\* deserialize_message(data, message_type) followed by
\* message_to_ordereddict(message): the payload decoded against the class,
\* one value per declared field, as the ordered items of the message.
\* A payload that does not fit the class does not decode.
Decoded(status, items) == [status |-> status, items |-> items]

deserialize_message(data, fields) ==
    IF Len(data) # Len(fields) THEN Decoded("DeserializationError", <<>>)
    ELSE Decoded("ok", [i \in 1..Len(fields) |-> <<fields[i], data[i]>>])

\* to_dict(data, message_type) with message_type a str (deserialize takes
\* the isinstance(message_type, str) branch for every call the Reader makes).
to_dict(data, message_type) ==
    LET cls == string_to_message_type(message_type)
    IN IF cls.status # "ok" THEN Decoded(cls.status, <<>>)
       ELSE deserialize_message(data, cls.fields)

\* --------------------------------------------------- the recorded files

\* The timestamps (nanoseconds) entries are recorded with.
Stamps == {10, 20}
\* The payload written at a timestamp: the serialized form of a String
\* message, one value long (example.py writes 'Hello World!', then
\* 'Goodybye World!').
Payload(stamp) == IF stamp = 10 THEN <<"Hello">> ELSE <<"Goodbye">>

Entry(topic, stamp) == [topic |-> topic, data |-> Payload(stamp), time |-> stamp]
\* The entries recordings are made of: both payloads on topic a, one on
\* each other topic.
Entries == {Entry("a", s) : s \in Stamps} \cup {Entry("b", 20), Entry("c", 10)}

Metadata(name, type) == [name |-> name, type |-> type]
\* What the topic-metadata query reports for a recording: topics a and b
\* with a loadable type, then nothing more (entries on c are then of an
\* unknown topic), or topic c with a type that fails at one stage of the
\* conversion, or topic a a second time with another type.
BaseMeta == <<Metadata("a", STR), Metadata("b", DAT)>>
MetaChoices ==
    {BaseMeta}
    \cup {BaseMeta \o <<Metadata("c", ty)>> : ty \in {BAD2, NOMOD, NOCLS, TPC, PNT}}
    \cup {BaseMeta \o <<Metadata("a", DAT)>>}

EntrySeqs == UNION {[1..n -> Entries] : n \in 0..MaxEntries}
\* The recordings: the metadata reports topic c only where an entry is on it.
Recordings ==
    {rec \in {[meta |-> m, entries |-> es] : m \in MetaChoices, es \in EntrySeqs} :
        (\E i \in 1..Len(rec.meta) : rec.meta[i].name = "c")
            => (\E i \in 1..Len(rec.entries) : rec.entries[i].topic = "c")}

\* A second bag file, of fixed content, that open() can be given later.
OtherRecording ==
    [meta |-> <<Metadata("o", STR), Metadata("b", STR)>>,
     entries |-> <<Entry("o", 20), Entry("b", 10)>>]

\* The topic lists handed to the constructor and to set_filter ([] or no
\* argument: no filter).
FilterChoices == {{}, {"a"}, {"b", "c"}}

VARIABLES
    bag,            \* the recording that is open: its topic metadata and entries
    pos,            \* the cursor: the index of the last entry read, 0 at first
    filter,         \* the cursor's topic filter, {} for none
    _records,       \* self._records: whether the attribute is set, and the list
    wanted,         \* the topics of the latest constructor / set_filter / open
    early,          \* whether they were set before any entry had been read
    log,            \* the entries read since the recording was opened, in order
    ret,            \* the latest operation and what it gave its caller
    specification,  \* the argument of a call of string_to_message_type
    loaded          \* the result of that call

vars == <<bag, pos, filter, _records, wanted, early, log, ret, specification, loaded>>

\* ---------------------------------------- the cursor (SequentialReader)

\* Whether the filter lets an entry through.
Passes(e, F) == F = {} \/ e.topic \in F

\* SequentialReader.has_next(): an entry after the cursor passes the filter.
has_next(rec, p, F) == \E i \in (p + 1)..Len(rec.entries) : Passes(rec.entries[i], F)

\* SequentialReader.read_next(): the index of the entry it returns, the
\* first one after the cursor that passes the filter.
read_next(rec, p, F) ==
    CHOOSE i \in (p + 1)..Len(rec.entries) :
        /\ Passes(rec.entries[i], F)
        /\ \A j \in (p + 1)..(i - 1) : ~Passes(rec.entries[j], F)

\* ------------------------------------------------------- reader.py: dicts

DictHas(d, k) == \E i \in 1..Len(d) : d[i][1] = k
DictGet(d, k) == d[CHOOSE i \in 1..Len(d) : d[i][1] = k][2]
DictKeys(d) == [i \in 1..Len(d) |-> d[i][1]]
\* d[k] = v: a new key is appended, a present key keeps its place and takes
\* the new value.
DictSet(d, k, v) ==
    IF DictHas(d, k) THEN [i \in 1..Len(d) |-> IF d[i][1] = k THEN <<k, v>> ELSE d[i]]
    ELSE Append(d, <<k, v>>)
\* {**d, **items}
RECURSIVE DictMerge(_, _)
DictMerge(d, items) ==
    IF items = <<>> THEN d
    ELSE DictMerge(DictSet(d, items[1][1], items[1][2]), Tail(items))

\* A variant that moves a key set again to the end.
RECURSIVE type_map_last(_)
type_map_last(topic_data) ==
    IF topic_data = <<>> THEN <<>>
    ELSE LET n == Len(topic_data)
             m == topic_data[n]
             before == type_map_last(SubSeq(topic_data, 1, n - 1))
         IN Append(SelectSeq(before, LAMBDA it : it[1] # m.name), <<m.name, m.type>>)

\* Reader.type_map: {metadata.name: metadata.type for metadata in topic_data}
RECURSIVE type_map(_)
type_map(topic_data) ==
    IF topic_data = <<>> THEN <<>>
    ELSE LET n == Len(topic_data)
             m == topic_data[n]
         IN DictSet(type_map(SubSeq(topic_data, 1, n - 1)), m.name, m.type)

\* Reader.topics: list(self.type_map)
topics(topic_data) == DictKeys(type_map(topic_data))

\* --------------------------------------------------- reader.py: __next__

\* The keys a record holds for the entry itself.
Reserved == {"topic", "time_ns", "type"}

\* A variant without the checks.
check_fields_none(data) == TRUE

\* assert('topic' not in data); assert('time_ns' not in data);
\* assert('type' not in data)
check_fields(data) == \A k \in Reserved : ~DictHas(data, k)

\* A variant that stores the time in microseconds.
make_record_micros(topic, time, message_type, data) ==
    DictMerge(<< <<"topic", topic>>, <<"time_ns", time \div 1000>>, <<"type", message_type>> >>, data)

\* record = {'topic': topic, 'time_ns': time, 'type': message_type, **data}
make_record(topic, time, message_type, data) ==
    DictMerge(<< <<"topic", topic>>, <<"time_ns", time>>, <<"type", message_type>> >>, data)

\* What a call of __next__ comes to: its outcome ("ok", "StopIteration" or
\* the exception raised), the cursor afterwards, the index of the entry it
\* read (0: none) and the record it returns.
Step(status, p, idx, record) ==
    [status |-> status, pos |-> p, idx |-> idx, record |-> record]

\* The conversion of the entry read, lines 254 to 264.
convert(rec, i) ==
    LET e == rec.entries[i]
        tm == type_map(rec.meta)
    IN IF ~DictHas(tm, e.topic) THEN Step("KeyError", i, i, <<>>)
       ELSE LET message_type == DictGet(tm, e.topic)
                data == to_dict(e.data, message_type)
            IN IF data.status # "ok" THEN Step(data.status, i, i, <<>>)
               ELSE IF ~check_fields(data.items) THEN Step("AssertionError", i, i, <<>>)
               ELSE Step("ok", i, i, make_record(e.topic, e.time, message_type, data.items))

\* A variant that reads without asking has_next first.
next_unguarded(rec, p, F) ==
    IF ~has_next(rec, p, F) THEN Step("RuntimeError", p, 0, <<>>)
    ELSE convert(rec, read_next(rec, p, F))

\* A variant that leaves the cursor on an entry it could not convert.
next_stay(rec, p, F) ==
    IF ~has_next(rec, p, F) THEN Step("StopIteration", p, 0, <<>>)
    ELSE LET r == convert(rec, read_next(rec, p, F))
         IN IF r.status = "ok" THEN r ELSE Step(r.status, p, r.idx, <<>>)

\* Reader.__next__ on recording rec with the cursor at p and filter F.
__next__(rec, p, F) ==
    IF ~has_next(rec, p, F) THEN Step("StopIteration", p, 0, <<>>)
    ELSE convert(rec, read_next(rec, p, F))

\* One entry of the log: the index of the entry read, the outcome of its
\* conversion and the record yielded.
LogEntry(idx, status, record) == [idx |-> idx, status |-> status, record |-> record]

\* list(self): __next__ until StopIteration.  An exception ends it and
\* propagates.  Gives the outcome, the cursor afterwards, the steps that read
\* an entry and the number of has_next calls.
RECURSIVE list_self(_, _, _)
list_self(rec, p, F) ==
    LET r == __next__(rec, p, F)
    IN IF r.status = "StopIteration"
       THEN [status |-> "ok", pos |-> p, steps |-> <<>>, has_next |-> 1]
       ELSE IF r.status # "ok"
       THEN [status |-> r.status, pos |-> r.pos, steps |-> <<r>>, has_next |-> 1]
       ELSE LET rest == list_self(rec, r.pos, F)
            IN [status |-> rest.status, pos |-> rest.pos,
                steps |-> <<r>> \o rest.steps, has_next |-> 1 + rest.has_next]

\* ------------------------------------------------------------ operations

\* What an operation gave its caller: the operation, its outcome, the value
\* returned, whether that value is an object made by this call, the calls
\* it made to has_next and read_next, and (for an access to records and for
\* an end of sequence) whether the operation before it was the same with
\* the same outcome.
Result(op, status, value, fresh, hn, rn, again) ==
    [op |-> op, status |-> status, value |-> value, fresh |-> fresh,
     has_next |-> hn, read_next |-> rn, again |-> again]
Ret(op, status, value, fresh, hn, rn) ==
    Result(op, status, value, fresh, hn, rn,
           /\ op = "records" \/ status = "StopIteration"
           /\ ret.op = op
           /\ ret.status = status)

Unset == [set |-> FALSE, items |-> <<>>]
List(items) == [set |-> TRUE, items |-> items]

Init ==
    /\ bag \in Recordings
    /\ pos = 0
    /\ filter \in FilterChoices
    /\ wanted = filter
    /\ early = TRUE
    /\ _records = Unset
    /\ log = <<>>
    /\ ret = Result("__init__", "ok", <<>>, FALSE, 0, 0, FALSE)
    /\ specification = <<>>
    /\ loaded = Loaded("none", <<>>, <<>>)

\* next(reader)
Next__ ==
    LET r == __next__(bag, pos, filter)
    IN /\ pos' = r.pos
       /\ log' = IF r.idx = 0 THEN log
                 ELSE Append(log, LogEntry(r.idx, r.status, r.record))
       /\ ret' = Ret("__next__", r.status, r.record, FALSE, 1, IF r.idx = 0 THEN 0 ELSE 1)
       /\ UNCHANGED <<bag, filter, _records, wanted, early, specification, loaded>>

\* The steps of a list(self) as log entries.
Logged(steps) ==
    [i \in 1..Len(steps) |-> LogEntry(steps[i].idx, steps[i].status, steps[i].record)]
\* The records a list(self) collected.
Collected(steps) == [i \in 1..Len(steps) |-> steps[i].record]

\* A variant whose list(self) starts over from the first entry.
records_rewind ==
    IF _records.set /\ _records.items # <<>>
    THEN /\ ret' = Ret("records", "ok", _records.items, FALSE, 0, 0)
         /\ UNCHANGED <<bag, pos, filter, _records, wanted, early, log,
                        specification, loaded>>
    ELSE LET l == list_self(bag, 0, filter)
         IN /\ pos' = l.pos
            /\ log' = log \o Logged(l.steps)
            /\ _records' = IF l.status = "ok" THEN List(Collected(l.steps)) ELSE _records
            /\ ret' = IF l.status = "ok"
                      THEN Ret("records", "ok", Collected(l.steps), TRUE,
                               l.has_next, Len(l.steps))
                      ELSE Ret("records", l.status, <<>>, FALSE, l.has_next, Len(l.steps))
            /\ UNCHANGED <<bag, filter, wanted, early, specification, loaded>>

\* reader.records: if not getattr(self, '_records', None):
\* self._records = list(self); return self._records
records ==
    IF _records.set /\ _records.items # <<>>
    THEN /\ ret' = Ret("records", "ok", _records.items, FALSE, 0, 0)
         /\ UNCHANGED <<bag, pos, filter, _records, wanted, early, log,
                        specification, loaded>>
    ELSE LET l == list_self(bag, pos, filter)
         IN /\ pos' = l.pos
            /\ log' = log \o Logged(l.steps)
            /\ _records' = IF l.status = "ok" THEN List(Collected(l.steps)) ELSE _records
            /\ ret' = IF l.status = "ok"
                      THEN Ret("records", "ok", Collected(l.steps), TRUE,
                               l.has_next, Len(l.steps))
                      ELSE Ret("records", l.status, <<>>, FALSE, l.has_next, Len(l.steps))
            /\ UNCHANGED <<bag, filter, wanted, early, specification, loaded>>

\* A variant that adds the topics to the filter in place.
set_filter_add(topics_arg) ==
    /\ filter' = filter \cup topics_arg
    /\ wanted' = topics_arg
    /\ early' = (log = <<>>)
    /\ ret' = Ret("set_filter", "ok", <<>>, FALSE, 0, 0)
    /\ UNCHANGED <<bag, pos, _records, log, specification, loaded>>

\* A variant that starts the recording over to apply the filter.
set_filter_rewind(topics_arg) ==
    /\ filter' = topics_arg
    /\ wanted' = topics_arg
    /\ early' = (log = <<>>)
    /\ pos' = 0
    /\ ret' = Ret("set_filter", "ok", <<>>, FALSE, 0, 0)
    /\ UNCHANGED <<bag, _records, log, specification, loaded>>

\* reader.set_filter(topics): super().set_filter(StorageFilter(topics))
set_filter(topics_arg) ==
    /\ filter' = topics_arg
    /\ wanted' = topics_arg
    /\ early' = (log = <<>>)
    /\ ret' = Ret("set_filter", "ok", <<>>, FALSE, 0, 0)
    /\ UNCHANGED <<bag, pos, _records, log, specification, loaded>>

\* A variant with line 175, self._records = list(self), in force.
open_and_list(file, keep) ==
    LET F == IF keep THEN filter ELSE {}
        l == list_self(file, 0, F)
    IN /\ bag' = file
       /\ filter' = F
       /\ wanted' = F
       /\ early' = TRUE
       /\ pos' = l.pos
       /\ log' = Logged(l.steps)
       /\ _records' = IF l.status = "ok" THEN List(Collected(l.steps)) ELSE _records
       /\ ret' = Ret("open", l.status, <<>>, FALSE, l.has_next, Len(l.steps))
       /\ UNCHANGED <<specification, loaded>>

\* reader.open(filepath): super().open(storage_options, converter_options),
\* with file the recording stored at filepath.  The cursor is on the start
\* of that recording; whether the cursor keeps the filter it had is left
\* open (keep).
open(file, keep) ==
    /\ bag' = file
    /\ filter' = IF keep THEN filter ELSE {}
    /\ wanted' = filter'
    /\ early' = TRUE
    /\ pos' = 0
    /\ log' = <<>>
    /\ ret' = Ret("open", "ok", <<>>, FALSE, 0, 0)
    /\ UNCHANGED <<_records, specification, loaded>>

\* reader.topics
get_topics ==
    /\ ret' = Ret("topics", "ok", topics(bag.meta), TRUE, 0, 0)
    /\ UNCHANGED <<bag, pos, filter, _records, wanted, early, log,
                   specification, loaded>>

\* reader.type_map
get_type_map ==
    /\ ret' = Ret("type_map", "ok", type_map(bag.meta), TRUE, 0, 0)
    /\ UNCHANGED <<bag, pos, filter, _records, wanted, early, log,
                   specification, loaded>>

Next ==
    \/ Next__
    \/ records
    \/ \E t \in FilterChoices : set_filter(t)
    \/ \E file \in {bag, OtherRecording}, keep \in BOOLEAN : open(file, keep)
    \/ get_topics
    \/ get_type_map

Spec == Init /\ [][Next]_vars

\* ------------------------------- string_to_message_type called on its own

SpecStrings == UNION {[1..n -> SpecChars] : n \in 0..MaxSpecLen}

\* message.string_to_message_type(s) for a caller's s
call_string_to_message_type ==
    /\ loaded.status = "none"
    /\ loaded' = string_to_message_type(specification)
    /\ UNCHANGED <<bag, pos, filter, _records, wanted, early, log, ret, specification>>

InitMsg ==
    /\ bag = OtherRecording
    /\ pos = 0
    /\ filter = {}
    /\ wanted = {}
    /\ early = TRUE
    /\ _records = Unset
    /\ log = <<>>
    /\ ret = Result("__init__", "ok", <<>>, FALSE, 0, 0, FALSE)
    /\ specification \in SpecStrings
    /\ loaded = Loaded("none", <<>>, <<>>)

NextMsg == call_string_to_message_type

SpecMsg == InitMsg /\ [][NextMsg]_vars

\* ---------------------------------------------------------------- claims

\* The cursor has no further entry for the reader.
Exhausted == ~has_next(bag, pos, filter)
\* The records yielded since the recording was opened.
Yielded ==
    LET ok == SelectSeq(log, LAMBDA l : l.status = "ok")
    IN [i \in 1..Len(ok) |-> ok[i].record]
\* The outcomes of an iteration over a whole recording without a filter,
\* each call made whatever the one before it raised.
RECURSIVE Unfiltered(_, _)
Unfiltered(rec, p) ==
    LET r == __next__(rec, p, {})
    IN IF r.status = "StopIteration" THEN <<>> ELSE <<r>> \o Unfiltered(rec, r.pos)
\* The topics the query reports, each at its first place.
RECURSIVE Distinct(_)
Distinct(names) ==
    IF names = <<>> THEN <<>>
    ELSE LET n == Len(names)
             front == Distinct(SubSeq(names, 1, n - 1))
         IN IF \E i \in 1..Len(front) : front[i] = names[n] THEN front
            ELSE Append(front, names[n])
MetaNames == [i \in 1..Len(bag.meta) |-> bag.meta[i].name]
\* The number of separators of a specification.
Separators(s) == Cardinality({i \in 1..Len(s) : s[i] = "/"})
\* No filter has been in force since the recording was opened.
NoFilter == filter = {} /\ wanted = {} /\ early

\* Every entry is on a topic the metadata query reports.
TopicsKnown ==
    \A i \in 1..Len(bag.entries) : DictHas(type_map(bag.meta), bag.entries[i].topic)

\* C1 as stated: without a filter, iteration to the end of a recording of N
\* entries yields exactly N records (here for the recordings all of whose
\* entries are on a topic of the metadata).
C1_AllEntriesYield ==
    (NoFilter /\ Exhausted /\ TopicsKnown) => Len(Yielded) = Len(bag.entries)

\* C1, amended: without a filter, iteration to the end reads each of the N
\* entries once, in write order, and yields a record for exactly the entries
\* whose conversion succeeds (N records when every conversion does); the
\* record of entry i has the topic and timestamp of entry i and the type
\* type_map[topic].
C1_OnePerConvertedEntry ==
    (NoFilter /\ Exhausted) =>
        /\ Len(log) = Len(bag.entries)
        /\ \A i \in 1..Len(log) :
            LET e == bag.entries[i]
            IN /\ log[i].idx = i
               /\ log[i].status = "ok" <=> convert(bag, i).status = "ok"
               /\ log[i].status = "ok" =>
                    /\ log[i].record[1] = <<"topic", e.topic>>
                    /\ log[i].record[2] = <<"time_ns", e.time>>
                    /\ log[i].record[3] = <<"type", DictGet(type_map(bag.meta), e.topic)>>
        /\ (\A i \in 1..Len(bag.entries) : convert(bag, i).status = "ok")
              => Len(Yielded) = Len(bag.entries)

\* A recording of two entries on two topics read to its end, both converted.
C1_Witness ==
    /\ NoFilter /\ Exhausted
    /\ ret.op = "__next__" /\ ret.status = "StopIteration"
    /\ Len(Yielded) = 2
    /\ Yielded[1][1] # Yielded[2][1]
    /\ Yielded[1][2][2] > Yielded[2][2][2]

\* C2: with a topic filter installed before any read, iteration to the end
\* yields exactly the records of the unfiltered sequence whose topic is in
\* the filter, in the same relative order, and no record of another topic.
C2_FilteredSubsequence ==
    (wanted # {} /\ early /\ Exhausted) =>
        LET all == SelectSeq(Unfiltered(bag, 0), LAMBDA r : r.status = "ok")
            sub == SelectSeq(all, LAMBDA r : r.record[1][2] \in wanted)
        IN /\ Yielded = [i \in 1..Len(sub) |-> sub[i].record]
           /\ \A i \in 1..Len(Yielded) : Yielded[i][1][2] \in wanted

\* A filter installed before any read let the second entry through and not
\* the first, to the end of the recording.
C2_Witness ==
    /\ wanted = {"a"} /\ early /\ Exhausted
    /\ Len(bag.entries) = 2
    /\ bag.entries[1].topic = "b"
    /\ Len(Yielded) = 1
    /\ log[1].idx = 2
    /\ ret.op = "__next__" /\ ret.status = "StopIteration"

\* C3 as stated: an access to records that follows an access to records
\* returns the same object with the same content and calls neither has_next
\* nor read_next, also when the list is empty.
C3_SecondAccessCached ==
    [][(ret.op = "records" /\ ret.status = "ok" /\ ret'.op = "records") =>
          /\ ret'.status = "ok"
          /\ ret'.value = ret.value
          /\ ~ret'.fresh
          /\ ret'.has_next = 0
          /\ ret'.read_next = 0]_vars

\* C4: where the cursor has no further entry, a call of __next__ signals
\* StopIteration, reads no entry and leaves the reader as it was, so that
\* the next call finds the same.
C4_StopIterationStays ==
    [][(Exhausted /\ ret'.op = "__next__") =>
          /\ ret'.status = "StopIteration"
          /\ ret'.read_next = 0
          /\ UNCHANGED <<bag, pos, filter, _records, log>>]_vars

\* A second end of sequence in a row, after entries were read.
C4_Witness ==
    /\ ret.op = "__next__" /\ ret.status = "StopIteration" /\ ret.again
    /\ log # <<>>

\* The fields of the message of entry i, as the deserializer gives them.
Fields(i) ==
    to_dict(bag.entries[i].data, DictGet(type_map(bag.meta), bag.entries[i].topic))

\* C5: a yielded record is topic, time_ns, type and then every field of the
\* message, name and value unchanged; a message with a field named like a
\* reserved key fails the call and yields no record.
C5_ReservedThenFields ==
    \A j \in 1..Len(log) :
        LET i == log[j].idx
            rec == log[j].record
        IN /\ log[j].status = "ok" =>
                /\ Fields(i).status = "ok"
                /\ Len(rec) = 3 + Len(Fields(i).items)
                /\ <<rec[1][1], rec[2][1], rec[3][1]>> = <<"topic", "time_ns", "type">>
                /\ rec[1][2] = bag.entries[i].topic
                /\ \A k \in 1..Len(Fields(i).items) :
                      /\ rec[3 + k] = Fields(i).items[k]
                      /\ rec[3 + k][1] \notin Reserved
           /\ ( /\ DictHas(type_map(bag.meta), bag.entries[i].topic)
                /\ Fields(i).status = "ok"
                /\ \E k \in 1..Len(Fields(i).items) : Fields(i).items[k][1] \in Reserved )
              => (log[j].status = "AssertionError" /\ rec = <<>>)

\* A message with a field named topic failed, and another entry was yielded.
C5_Witness ==
    /\ \E j \in 1..Len(log) : log[j].status = "AssertionError"
    /\ \E j \in 1..Len(log) : log[j].status = "ok" /\ Len(log[j].record) = 4

\* C6: a specification that does not have exactly three components (two
\* separators) fails with the unpacking error, and neither the import nor
\* the attribute lookup is made.
C6_FormatErrorBeforeLoading ==
    (loaded.status # "none" /\ Separators(specification) # 2) =>
        (loaded.status = "ValueError" /\ loaded.loads = <<>>)

\* A specification of four components was rejected.
C6_Witness ==
    /\ loaded.status = "ValueError"
    /\ Separators(specification) = 3
    /\ Len(specification) > 3

C8_TopicsAreTypeMapKeys ==
    /\ [](/\ DictKeys(type_map(bag.meta)) = Distinct(MetaNames)
          /\ topics(bag.meta) = Distinct(MetaNames)
          /\ ret.op = "topics" => ret.value = DictKeys(type_map(bag.meta))
          /\ ret.op = "type_map" => DictKeys(ret.value) = Distinct(MetaNames)
          /\ \A i, j \in 1..Len(topics(bag.meta)) :
                topics(bag.meta)[i] = topics(bag.meta)[j] => i = j)
    /\ [][ret'.op \in {"topics", "type_map"} =>
            UNCHANGED <<bag, pos, filter, log, _records>>]_vars

\* topics read in the middle of an iteration over a recording whose
\* metadata names a topic twice.
C8_Witness ==
    /\ ret.op = "topics"
    /\ Len(bag.meta) = 3 /\ Len(ret.value) = 2
    /\ pos > 0 /\ ~Exhausted

\* C9: once records is a list that is not empty, no operation changes it,
\* and an access to records returns it as it is, without a read.
C9_SnapshotStays ==
    [][(_records.set /\ _records.items # <<>>) =>
          /\ _records' = _records
          /\ ret'.op = "records" =>
                /\ ret'.status = "ok"
                /\ ret'.value = _records.items
                /\ ~ret'.fresh
                /\ ret'.has_next = 0 /\ ret'.read_next = 0
                /\ pos' = pos]_vars

\* records, read after open() put another recording in place, is still the
\* list of the first recording's records.
C9_Witness ==
    /\ bag = OtherRecording
    /\ ret.op = "records" /\ ~ret.fresh
    /\ ret.value # <<>>
    /\ ret.value[1][1][2] = "a"

\* The exceptions a conversion raises.
Failures ==
    {"KeyError", "ValueError", "TypeError", "ModuleNotFoundError", "AttributeError",
     "DeserializationError", "AssertionError"}

\* C10: a call of __next__ that fails after reading an entry gives the
\* exception to its caller after one read, the cursor is past the entry,
\* and the entry is not read again: the reads that follow are of later
\* entries.
C10_FailedEntryIsPassed ==
    /\ pos = (IF log = <<>> THEN 0 ELSE log[Len(log)].idx)
    /\ \A j \in 1..Len(log) :
          log[j].status # "ok" =>
              /\ log[j].status \in Failures
              /\ log[j].record = <<>>
              /\ \A k \in 1..Len(log) : k > j => log[k].idx > log[j].idx
    /\ (ret.op = "__next__" /\ ret.status \notin {"ok", "StopIteration"}) =>
          /\ ret.has_next = 1 /\ ret.read_next = 1
          /\ log # <<>>
          /\ log[Len(log)].status = ret.status

\* An entry failed and the call after it yielded the entry that follows.
C10_Witness ==
    /\ Len(log) = 2
    /\ log[1].status \in Failures
    /\ log[2].status = "ok" /\ log[2].idx = 2
    /\ ret.op = "__next__" /\ ret.status = "ok"

\* The entries after place p that the filter in force lets through, by index.
Remaining(p) ==
    SelectSeq([i \in 1..(Len(bag.entries) - p) |-> p + i],
              LAMBDA i : Passes(bag.entries[i], wanted))
\* The records of the entries of a sequence of indices.
RecordsOf(indices) == [j \in 1..Len(indices) |-> convert(bag, indices[j]).record]
\* Every entry of a sequence of indices converts.
AllConvert(indices) == \A j \in 1..Len(indices) : convert(bag, indices[j]).status = "ok"

\* C11: an access to records made while no list is held, after k records
\* were taken by __next__, reads from the cursor on and holds exactly the
\* records of the entries after it, in order: with the k already taken they
\* make up the N records of the recording.  Whatever the interleaving of
\* calls on an open recording, the entries read are read in strictly
\* increasing order, each at most once, and the cursor never moves back.
C11_RecordsIsTheRemainder ==
    /\ [](\A i, j \in 1..Len(log) : i < j => log[i].idx < log[j].idx)
    /\ [][ret'.op # "open" => (pos' >= pos /\ bag' = bag)]_vars
    /\ [][(ret'.op = "records" /\ ~_records.set) =>
            /\ AllConvert(Remaining(pos)) <=> ret'.status = "ok"
            /\ ret'.status = "ok" =>
                  /\ ret'.value = RecordsOf(Remaining(pos))
                  /\ _records' = List(ret'.value)
                  /\ pos' >= pos /\ Remaining(pos') = <<>>
                  /\ (early /\ AllConvert(Remaining(0))) =>
                        /\ Yielded \o ret'.value = RecordsOf(Remaining(0))
                        /\ Len(ret'.value) = Len(Remaining(0)) - Len(Yielded)]_vars

\* One of the two records of a recording was taken by __next__, and the
\* first access to records then held the other one only.
C11_Witness ==
    /\ ret.op = "records" /\ ret.status = "ok" /\ ret.fresh
    /\ early /\ wanted = {}
    /\ Len(bag.entries) = 2
    /\ Len(log) = 2 /\ log[1].status = "ok" /\ log[2].status = "ok"
    /\ Len(ret.value) = 1
    /\ ret.value = <<log[2].record>>
    /\ log[1].record # log[2].record
    /\ _records = List(ret.value)

====
